---- MODULE Spec2Model ----
(***************************************************************************)
(* Metered channels (tokio-prometheus-metered-channel).                    *)
(*                                                                         *)
(* The queue channel of src/src/channel.rs wraps a bounded tokio mpsc      *)
(* channel: a FIFO list of values guarded by a fair counting semaphore of  *)
(* `buffer` permits.  Every wrapper method is the inner channel operation  *)
(* followed, in a separate step, by the update of the shared prometheus    *)
(* gauge / counter.  The inner channel is modelled by what the wrapper's   *)
(* calls do to it: buf (the list), permits (free permits of the            *)
(* semaphore), waiters (the semaphore's FIFO wait queue), sem_closed (the  *)
(* semaphore's closed bit) and rx_state (the receiver half).               *)
(***************************************************************************)
EXTENDS Integers, Sequences, FiniteSets, TLC

\* ---------------------------------------------------------------- bounds
MaxCap == 2          \* capacities 1..MaxCap are explored
MaxVal == 2          \* values 1..MaxVal are offered to the senders
MaxIn == 3           \* inputs 1..MaxIn are fed to the processor loop
MaxBcCap == 3        \* broadcast capacities 1..MaxBcCap are explored
MaxBcSend == 4       \* successful broadcast sends per run
MaxWSend == 2        \* successful watch sends per run

Senders == {"tx1", "tx2"}      \* the sender handle and its clone
FirstSender == "tx1"           \* the handle channel() returns
Subs == {"rx1", "rx2"}         \* broadcast: the Receiver of channel() and one
                               \* made by subscribe(); watch: the Receiver of
                               \* channel() and its clone
FirstSub == "rx1"              \* the Receiver channel() returns

VARIABLES
    cap,             \* buffer: the capacity the channel was built with
    buf,             \* inner list: values enqueued and not yet dequeued
    permits,         \* inner semaphore: permits nobody holds
    waiters,         \* inner semaphore: wait queue, oldest first
    sem_closed,      \* inner semaphore: closed bit (Sender::is_closed reads it)
    rx_state,        \* receiver half: "open", "closed" (close()), "dropped"
    tx_alive,        \* which sender handles exist
    held,            \* held[s]: unused Permit values obtained through handle s
    fut,             \* fut[s]: the operation in flight on handle s
    rx,              \* the receive operation in flight
    gauge,           \* prometheus IntGauge shared by all handles
    total_messages,  \* Option<IntCounter>: <<>> is None, <<n>> is Some(n)
    nextVal,         \* next fresh value a caller passes in
    enqLog,          \* history: values in the order they entered the list
    recvLog,         \* history: values in the order recv/try_recv took them
    last             \* the outcome of the operation that returned last; for a
                     \* granted reserve / with_permit, v is the number of
                     \* values enqueued so far

\* the processor loop of test_with_permit_cancel_safety; the channel above is
\* its output channel
VARIABLES
    in_buf,          \* input channel: values sent and not yet received
    in_sent,         \* inputs 1..in_sent were sent on the input channel
    waiting,         \* the FuturesUnordered of ready(input), oldest first
    ppc,             \* where the processor task is
    pin,             \* the input rx_in.recv() returned (0: none)
    wp_out,          \* the inner future's output inside with_permit:
                     \* <<>> not polled yet, <<0>> None, <<v>> Some(v)
    wp_dropped       \* history: select! dropped a pending with_permit future

procVars == <<in_buf, in_sent, waiting, ppc, pin, wp_out, wp_dropped>>

\* what the channel operations read and write
chanVars == <<cap, buf, permits, waiters, sem_closed, rx_state, tx_alive, held,
              fut, rx, gauge, total_messages, enqLog, recvLog, last>>

\* which constructor built the channel of this run: "queue" (mpsc_channel),
\* "broadcast" (broadcast_channel) or "watch" (watch_channel); the variables
\* of the other channel types keep their initial values
VARIABLE kind

\* the broadcast channel of src/src/broadcast.rs
VARIABLES
    bc_cap,          \* capacity passed to broadcast_channel
    bc_log,          \* history and ring: every value sent, oldest first; the
                     \* ring retains the last BufLen of them
    bc_next,         \* bc_next[r]: how many values subscriber r's cursor passed
    bc_sub,          \* bc_sub[r]: "none" (not created), "live", "dropped"
    bc_tx,           \* bc_tx[s]: sender handle s exists
    bc_gauge,        \* prometheus IntGauge shared by all handles
    bc_total,        \* Option<IntCounter>
    bc_got,          \* history: bc_got[r] the values r received, in order
    bc_from,         \* history: bc_from[r] values sent before r was created
    bc_nrecv,        \* history: successful recv() calls of all subscribers
    bc_closed_seen,  \* history: a send has returned Closed
    bc_last          \* the outcome of the operation that returned last

bcVars == <<bc_cap, bc_log, bc_next, bc_sub, bc_tx, bc_gauge,
            bc_total, bc_got, bc_from, bc_nrecv, bc_closed_seen, bc_last>>

\* the watch channel of src/src/watch.rs
VARIABLES
    w_value,         \* the cell's value
    w_version,       \* the cell's version: successful sends so far
    w_seen,          \* w_seen[r]: the version receiver r has marked seen
    w_sub,           \* w_sub[r]: "none" (not created), "live", "dropped"
    w_tx_alive,      \* the Sender exists
    w_tx,            \* the send in flight
    w_rx,            \* w_rx[r]: the changed() in flight on receiver r
    w_gauge,         \* prometheus IntGauge shared by all handles
    w_total,         \* Option<IntCounter>
    w_nchanged,      \* history: successful changed() calls of all receivers
    w_closed_seen,   \* history: a send has returned Closed
    w_last           \* the outcome of the operation that returned last

wVars == <<w_value, w_version, w_seen, w_sub, w_tx_alive, w_tx, w_rx,
           w_gauge, w_total, w_nchanged, w_closed_seen, w_last>>

\* the prometheus Registry the ChannelMetrics constructors of
\* src/src/metrics.rs register with
VARIABLES
    reg,             \* the fully qualified names of the registered series
    reg_last         \* the outcome of the registration call that returned last

regVars == <<reg, reg_last>>

otherVars == <<kind, bcVars, wVars, regVars>>

vars == <<chanVars, nextVal, procVars, otherVars>>

Idle == [op |-> "none", st |-> "idle", v |-> 0]
RxIdle == [op |-> "none", st |-> "idle", v |-> 0]

\* what a call returned: the operation, its result and the value it carries
Outcome(op, out, v) == [op |-> op, out |-> out, v |-> v]

\* ------------------------------------------------------------ error.rs
\* tokio's TrySendError / SendError and the wrapper's SendError are records
\* [kind, v]; the conversions are the From impls.
FromTrySendError(e) ==
    IF e.kind = "Full" THEN [kind |-> "Full", v |-> e.v]
                       ELSE [kind |-> "Closed", v |-> e.v]

\* mutant: the conversion drops the payload
FromTokioSendErrorLost(e) == [kind |-> "Closed", v |-> 0]

FromTokioSendError(e) == [kind |-> "Closed", v |-> e.v]

\* ----------------------------------------------------------- metrics
\* mutant: the counter is left alone
CounterIncSkipped(c) == c

CounterInc(c) == IF c = <<>> THEN c ELSE <<c[1] + 1>>

\* ------------------------------------------------- the inner semaphore
\* add_permit: a released permit goes to the oldest waiter, which leaves the
\* queue and completes when next polled; with no waiter it goes to the pool.
\* mutant: the permit is handed to the waiter and to the pool
AddPermitTwice(p, w, f) ==
    IF w # <<>>
    THEN [permits |-> p + 1, waiters |-> Tail(w),
          fut |-> [f EXCEPT ![Head(w)].st = "got"]]
    ELSE [permits |-> p + 1, waiters |-> w, fut |-> f]

\* mutant: a released permit goes to the pool and the oldest waiter sleeps on
AddPermitNoWake(p, w, f) == [permits |-> p + 1, waiters |-> w, fut |-> f]

\* mutant: a released permit is lost
AddPermitLeak(p, w, f) == [permits |-> p, waiters |-> w, fut |-> f]

AddPermit(p, w, f) ==
    IF w # <<>>
    THEN [permits |-> p, waiters |-> Tail(w),
          fut |-> [f EXCEPT ![Head(w)].st = "got"]]
    ELSE [permits |-> p + 1, waiters |-> w, fut |-> f]

\* mutant: a dropped future stays in the wait queue
RemoveWaiterStale(w, s) == w

RemoveWaiter(w, s) == SelectSeq(w, LAMBDA x : x # s)

\* inner try_send: the semaphore's try_acquire looks at the closed bit first,
\* then at the permits.
\* mutant: the permits are looked at before the closed bit
InnerTrySendFullFirst(v) ==
    IF permits = 0 THEN [ok |-> FALSE, err |-> [kind |-> "Full", v |-> v]]
    ELSE IF sem_closed THEN [ok |-> FALSE, err |-> [kind |-> "Closed", v |-> v]]
    ELSE [ok |-> TRUE, err |-> [kind |-> "none", v |-> v]]

InnerTrySend(v) ==
    IF sem_closed THEN [ok |-> FALSE, err |-> [kind |-> "Closed", v |-> v]]
    ELSE IF permits = 0 THEN [ok |-> FALSE, err |-> [kind |-> "Full", v |-> v]]
    ELSE [ok |-> TRUE, err |-> [kind |-> "none", v |-> v]]

\* Sender::is_closed
is_closed == sem_closed

\* all sender handles gone: the list carries the senders' closed mark
TxClosed == \A s \in Senders : ~tx_alive[s]

\* semaphore.is_idle(): every permit is back in the pool
SemIdle == permits = cap

\* Permit values that exist: returned to a caller, or held inside a
\* with_permit future that is driving its inner future.
LivePermits ==
    LET Sum[S \in SUBSET Senders] ==
          IF S = {} THEN 0
          ELSE LET s == CHOOSE x \in S : TRUE
               IN held[s] + (IF fut[s].st = "fut" THEN 1 ELSE 0) + Sum[S \ {s}]
    IN Sum[Senders]

\* broadcast::channel(c), broadcast.rs 50-67: one sender, one receiver,
\* nothing sent
BcStart(c) ==
    /\ bc_cap = c
    /\ bc_log = <<>>
    /\ bc_next = [r \in Subs |-> 0]
    /\ bc_sub = [r \in Subs |-> IF r = FirstSub THEN "live" ELSE "none"]
    /\ bc_tx = [s \in Senders |-> s = FirstSender]
    /\ bc_gauge = 0
    /\ bc_total = <<0>>
    /\ bc_got = [r \in Subs |-> <<>>]
    /\ bc_from = [r \in Subs |-> 0]
    /\ bc_nrecv = 0
    /\ bc_closed_seen = FALSE
    /\ bc_last = Outcome("none", "none", 0)

\* watch::channel(0, metrics), watch.rs 54-74: the initial value is seen
WStart ==
    /\ w_value = 0
    /\ w_version = 0
    /\ w_seen = [r \in Subs |-> 0]
    /\ w_sub = [r \in Subs |-> IF r = FirstSub THEN "live" ELSE "none"]
    /\ w_tx_alive = TRUE
    /\ w_tx = Idle
    /\ w_rx = [r \in Subs |-> RxIdle]
    /\ w_gauge = 0
    /\ w_total = <<0>>
    /\ w_nchanged = 0
    /\ w_closed_seen = FALSE
    /\ w_last = Outcome("none", "none", 0)

\* Registry::new(): nothing is registered
RegStart ==
    /\ reg = {}
    /\ reg_last = [op |-> "none", name |-> "none", out |-> "none"]

Init ==
    /\ kind = "queue" /\ BcStart(1) /\ WStart /\ RegStart
    /\ cap \in 1..MaxCap
    /\ buf = <<>>
    /\ permits = cap
    /\ waiters = <<>>
    /\ sem_closed = FALSE
    /\ rx_state = "open"
    /\ tx_alive = [s \in Senders |-> s = FirstSender]
    /\ held = [s \in Senders |-> 0]
    /\ fut = [s \in Senders |-> Idle]
    /\ rx = RxIdle
    /\ gauge = 0
    /\ total_messages = <<0>>
    /\ nextVal = 1
    /\ enqLog = <<>>
    /\ recvLog = <<>>
    /\ last = Outcome("none", "none", 0)
    /\ in_buf = <<>>
    /\ in_sent = 0
    /\ waiting = <<>>
    /\ ppc = "select"
    /\ pin = 0
    /\ wp_out = <<>>
    /\ wp_dropped = FALSE

CanCall(s) == tx_alive[s] /\ fut[s] = Idle

\* Permit::send of the inner channel / the push at the end of an inner send:
\* the value goes to the tail of the list.
\* mutant: the value goes to the head of the list
PushFront(b, v) == <<v>> \o b

Push(b, v) == Append(b, v)

\* gauge.inc() and gauge.dec()
\* mutant: the increment is forgotten
GaugeIncForgotten(g) == g

GaugeInc(g) == g + 1
\* mutant: the gauge stops at zero
GaugeDecSaturating(g) == IF g > 0 THEN g - 1 ELSE 0

GaugeDec(g) == g - 1

\* -------------------------------------------------- Sender::try_send
\* channel.rs 88-99: inner.try_send(value); Ok is followed by the metrics
\* update (MetricsInc), Err(err) is returned as err.into().
\* op names the method the caller went through: try_send itself, or
\* Sink::start_send, which calls it (channel.rs 218-220)
TrySendAs(s, op, v) ==
    /\ CanCall(s)
    /\ LET r == InnerTrySend(v) IN
       IF r.ok
       THEN /\ permits' = permits - 1
            /\ buf' = Push(buf, v)
            /\ enqLog' = Append(enqLog, v)
            /\ fut' = [fut EXCEPT ![s] = [op |-> op, st |-> "inc", v |-> v]]
            /\ UNCHANGED last
       ELSE /\ last' = Outcome(op, FromTrySendError(r.err).kind,
                               FromTrySendError(r.err).v)
            /\ UNCHANGED <<permits, buf, enqLog, fut>>
    /\ UNCHANGED <<cap, waiters, sem_closed, rx_state, tx_alive, held, rx,
                   gauge, total_messages, recvLog>>

TrySend(s, v) == TrySendAs(s, "try_send", v)

\* gauge.inc(); counter.inc(); Ok(())  -- the tail of try_send, send and
\* Permit::send (channel.rs 91-95, 107-112, 37-40)
MetricsInc(s) ==
    /\ fut[s].st = "inc"
    /\ gauge' = GaugeInc(gauge)
    /\ total_messages' = CounterInc(total_messages)
    /\ fut' = [fut EXCEPT ![s] = Idle]
    /\ last' = Outcome(fut[s].op, "Ok", fut[s].v)
    /\ UNCHANGED <<cap, buf, permits, waiters, sem_closed, rx_state, tx_alive,
                   held, rx, enqLog, recvLog>>

\* ------------------------------- first poll of send / reserve / with_permit
\* channel.rs 105 (inner.send(value).await), 180 (inner.reserve().await),
\* 197 (self.reserve().await?): the semaphore's acquire.  Closed: the call
\* fails at once.  A free permit: it is taken.  Otherwise the future joins
\* the wait queue and the call is pending.
Acquired(s, op, v) ==
    \* what the operation does in the poll in which its permit is obtained
    IF op = "send"
    THEN /\ buf' = Push(buf, v)
         /\ enqLog' = Append(enqLog, v)
         /\ fut' = [fut EXCEPT ![s] = [op |-> op, st |-> "inc", v |-> v]]
         /\ UNCHANGED <<held, last>>
    ELSE IF op = "reserve"
    THEN /\ held' = [held EXCEPT ![s] = @ + 1]
         /\ fut' = [fut EXCEPT ![s] = Idle]
         /\ last' = Outcome(op, "Ok", Len(enqLog))
         /\ UNCHANGED <<buf, enqLog>>
    ELSE /\ fut' = [fut EXCEPT ![s] = [op |-> op, st |-> "fut", v |-> 0]]
         /\ UNCHANGED <<buf, enqLog, held, last>>

\* the Err arm: send gives the value back (channel.rs 114-117 with
\* error.rs 55-59), reserve and with_permit give Closed(()) (channel.rs 185)
ClosedOutcome(op, v) ==
    IF op = "send"
    THEN Outcome(op, FromTokioSendError([kind |-> "SendError", v |-> v]).kind,
                 FromTokioSendError([kind |-> "SendError", v |-> v]).v)
    ELSE Outcome(op, "Closed", 0)

Call(s, op, v) ==
    /\ CanCall(s)
    /\ IF sem_closed
       THEN /\ last' = ClosedOutcome(op, v)
            /\ UNCHANGED <<permits, waiters, buf, enqLog, held, fut>>
       ELSE IF permits > 0
       THEN /\ permits' = permits - 1
            /\ Acquired(s, op, v)
            /\ UNCHANGED waiters
       ELSE /\ waiters' = Append(waiters, s)
            /\ fut' = [fut EXCEPT ![s] = [op |-> op, st |-> "wait", v |-> v]]
            /\ UNCHANGED <<permits, buf, enqLog, held, last>>
    /\ UNCHANGED <<cap, sem_closed, rx_state, tx_alive, rx, gauge,
                   total_messages, recvLog>>

\* a later poll of a pending send / reserve / with_permit: it resolves once
\* the semaphore is closed (Err; a permit already assigned goes back) or a
\* permit has been assigned to it.
Poll(s) ==
    /\ fut[s].st \in {"wait", "got"}
    /\ IF sem_closed
       THEN LET a == IF fut[s].st = "got"
                     THEN AddPermit(permits, waiters, [fut EXCEPT ![s] = Idle])
                     ELSE [permits |-> permits, waiters |-> waiters,
                           fut |-> [fut EXCEPT ![s] = Idle]]
            IN /\ permits' = a.permits
               /\ waiters' = a.waiters
               /\ fut' = a.fut
               /\ last' = ClosedOutcome(fut[s].op, fut[s].v)
               /\ UNCHANGED <<buf, enqLog, held>>
       ELSE /\ fut[s].st = "got"
            /\ Acquired(s, fut[s].op, fut[s].v)
            /\ UNCHANGED <<permits, waiters>>
    /\ UNCHANGED <<cap, sem_closed, rx_state, tx_alive, rx, gauge,
                   total_messages, recvLog>>

\* with_permit, channel.rs 202-207: the inner future completes and
\* (permit, output) is returned to the caller.
WithPermitDone(s) ==
    /\ fut[s].st = "fut"
    /\ held' = [held EXCEPT ![s] = @ + 1]
    /\ fut' = [fut EXCEPT ![s] = Idle]
    /\ last' = Outcome("with_permit", "Ok", Len(enqLog))
    /\ UNCHANGED <<cap, buf, permits, waiters, sem_closed, rx_state, tx_alive,
                   rx, gauge, total_messages, enqLog, recvLog>>

\* the pending future is dropped: it leaves the wait queue; a permit assigned
\* to it, or the Permit a with_permit future holds, is released.
Cancel(s) ==
    /\ fut[s].st \in {"wait", "got", "fut"}
    /\ LET a == IF fut[s].st = "wait"
                THEN [permits |-> permits, waiters |-> RemoveWaiter(waiters, s),
                      fut |-> [fut EXCEPT ![s] = Idle]]
                ELSE AddPermit(permits, waiters, [fut EXCEPT ![s] = Idle])
       IN /\ permits' = a.permits
          /\ waiters' = a.waiters
          /\ fut' = a.fut
    /\ last' = Outcome(fut[s].op,
                       IF fut[s].st = "fut" THEN "CancelledHeld" ELSE "Cancelled",
                       fut[s].v)
    /\ UNCHANGED <<cap, buf, sem_closed, rx_state, tx_alive, held, rx, gauge,
                   total_messages, enqLog, recvLog>>

\* ----------------------------------------------------------- Permit
\* Permit::send, channel.rs 35-41: the inner permit's send cannot fail; the
\* metrics update follows.
PermitSend(s, v) ==
    /\ held[s] > 0
    /\ fut[s] = Idle
    /\ held' = [held EXCEPT ![s] = @ - 1]
    /\ buf' = Push(buf, v)
    /\ enqLog' = Append(enqLog, v)
    /\ fut' = [fut EXCEPT ![s] = [op |-> "permit_send", st |-> "inc", v |-> v]]
    /\ UNCHANGED <<cap, permits, waiters, sem_closed, rx_state, tx_alive, rx,
                   gauge, total_messages, recvLog, last>>

\* a Permit is dropped unused (channel.rs 28-31 has no Drop of its own: the
\* inner permit's drop gives the permit back to the semaphore)
PermitDrop(s) ==
    /\ held[s] > 0
    /\ held' = [held EXCEPT ![s] = @ - 1]
    /\ LET a == AddPermit(permits, waiters, fut)
       IN /\ permits' = a.permits
          /\ waiters' = a.waiters
          /\ fut' = a.fut
    /\ last' = Outcome("permit_drop", "Ok", 0)
    /\ UNCHANGED <<cap, buf, sem_closed, rx_state, tx_alive, rx, gauge,
                   total_messages, enqLog, recvLog>>

\* ------------------------------------------------- sender handles
\* #[derive(Clone)] on Sender (channel.rs 12): a clone shares channel, gauge
\* and counter.
CloneSender(s, t) ==
    /\ tx_alive[s] /\ ~tx_alive[t]
    /\ tx_alive' = [tx_alive EXCEPT ![t] = TRUE]
    /\ UNCHANGED <<cap, buf, permits, waiters, sem_closed, rx_state, held, fut,
                   rx, gauge, total_messages, enqLog, recvLog, last>>

\* a handle is dropped; it lends itself to its futures and permits, so none
\* of them is alive.  The last drop marks the list closed (TxClosed).
DropSender(s) ==
    /\ CanCall(s) /\ held[s] = 0
    /\ tx_alive' = [tx_alive EXCEPT ![s] = FALSE]
    /\ UNCHANGED <<cap, buf, permits, waiters, sem_closed, rx_state, held, fut,
                   rx, gauge, total_messages, enqLog, recvLog, last>>

\* --------------------------------------------------------- Receiver
\* inner recv: Value while the list has one; None once all senders are gone,
\* or once the receiver has closed and every permit is back; else pending.
InnerRecv ==
    IF buf # <<>> THEN [kind |-> "Value", v |-> Head(buf)]
    ELSE IF TxClosed THEN [kind |-> "None", v |-> 0]
    ELSE IF rx_state = "closed" /\ SemIdle THEN [kind |-> "None", v |-> 0]
    ELSE [kind |-> "Pending", v |-> 0]

\* inner try_recv: Disconnected only on the senders' closed mark.
\* mutant: try_recv gives up on an empty list without looking at the mark
InnerTryRecvNoMark ==
    IF buf # <<>> THEN [kind |-> "Value", v |-> Head(buf)]
    ELSE [kind |-> "Empty", v |-> 0]

InnerTryRecv ==
    IF buf # <<>> THEN [kind |-> "Value", v |-> Head(buf)]
    ELSE IF TxClosed THEN [kind |-> "Disconnected", v |-> 0]
    ELSE [kind |-> "Empty", v |-> 0]

\* the dequeue of a value: its permit is released
Dequeue(op, v) ==
    /\ buf' = Tail(buf)
    /\ recvLog' = Append(recvLog, v)
    /\ LET a == AddPermit(permits, waiters, fut)
       IN /\ permits' = a.permits
          /\ waiters' = a.waiters
          /\ fut' = a.fut
    /\ rx' = [op |-> op, st |-> "dec", v |-> v]
    /\ UNCHANGED last

\* self.inner.recv().await resolves, channel.rs 132-139
RecvPoll ==
    /\ LET m == InnerRecv IN
       /\ m.kind # "Pending"
       /\ IF m.kind = "Value"
          THEN Dequeue("recv", m.v)
          ELSE /\ last' = Outcome("recv", "None", 0)
               /\ rx' = RxIdle
               /\ UNCHANGED <<buf, recvLog, permits, waiters, fut>>
    /\ UNCHANGED <<cap, sem_closed, rx_state, tx_alive, held, gauge,
                   total_messages, enqLog>>

\* Receiver::recv, channel.rs 130-140
Recv ==
    /\ rx_state # "dropped" /\ rx = RxIdle
    /\ RecvPoll

\* Receiver::try_recv, channel.rs 143-151
TryRecv ==
    /\ rx_state # "dropped" /\ rx = RxIdle
    /\ LET m == InnerTryRecv IN
       IF m.kind = "Value"
       THEN Dequeue("try_recv", m.v)
       ELSE /\ last' = Outcome("try_recv", m.kind, 0)
            /\ UNCHANGED <<buf, recvLog, permits, waiters, fut, rx>>
    /\ UNCHANGED <<cap, sem_closed, rx_state, tx_alive, held, gauge,
                   total_messages, enqLog>>

\* gauge.dec() after a dequeue (channel.rs 133-135, 145-147)
MetricsDec ==
    /\ rx.st = "dec"
    /\ gauge' = GaugeDec(gauge)
    /\ rx' = RxIdle
    /\ last' = Outcome(rx.op, "Some", rx.v)
    /\ UNCHANGED <<cap, buf, permits, waiters, sem_closed, rx_state, tx_alive,
                   held, fut, total_messages, enqLog, recvLog>>

\* Receiver::close, channel.rs 154-156: the semaphore is closed and its
\* waiters are woken (they leave the queue and fail when polled); a second
\* close changes nothing.
Close ==
    /\ rx_state = "open" /\ rx = RxIdle
    /\ rx_state' = "closed"
    /\ sem_closed' = TRUE
    /\ waiters' = <<>>
    /\ last' = Outcome("close", "Ok", 0)
    /\ UNCHANGED <<cap, buf, permits, tx_alive, held, fut, rx, gauge,
                   total_messages, enqLog, recvLog>>

\* the Receiver is dropped (channel.rs 20-25 has no Drop of its own): the
\* inner receiver closes the channel and drops the buffered values,
\* releasing their permits; the gauge is not touched.
DropReceiver ==
    /\ rx_state # "dropped" /\ rx = RxIdle
    /\ rx_state' = "dropped"
    /\ sem_closed' = TRUE
    /\ waiters' = <<>>
    /\ buf' = <<>>
    /\ permits' = permits + Len(buf)
    /\ last' = Outcome("drop_rx", "Ok", 0)
    /\ UNCHANGED <<cap, tx_alive, held, fut, rx, gauge, total_messages,
                   enqLog, recvLog>>

\* ------------------------------------------------------ the callers
\* a caller passes the next fresh value; it keeps the value when the call
\* fails at once with Full(v) / Closed(v)
Took(s) == IF fut'[s].v = nextVal THEN nextVal + 1 ELSE nextVal

try_send(s) ==
    nextVal <= MaxVal /\ TrySend(s, nextVal) /\ nextVal' = Took(s)
    /\ UNCHANGED <<procVars, otherVars>>
send(s) ==
    nextVal <= MaxVal /\ Call(s, "send", nextVal) /\ nextVal' = Took(s)
    /\ UNCHANGED <<procVars, otherVars>>
reserve(s) == Call(s, "reserve", 0) /\ UNCHANGED <<nextVal, procVars, otherVars>>
with_permit(s) == Call(s, "with_permit", 0) /\ UNCHANGED <<nextVal, procVars, otherVars>>
permit_send(s) ==
    nextVal <= MaxVal /\ PermitSend(s, nextVal) /\ nextVal' = nextVal + 1
    /\ UNCHANGED <<procVars, otherVars>>

Next ==
    \/ \E s \in Senders : try_send(s)
    \/ \E s \in Senders : send(s)
    \/ \E s \in Senders : reserve(s)
    \/ \E s \in Senders : with_permit(s)
    \/ \E s \in Senders : Poll(s) /\ UNCHANGED <<nextVal, procVars, otherVars>>
    \/ \E s \in Senders : WithPermitDone(s) /\ UNCHANGED <<nextVal, procVars, otherVars>>
    \/ \E s \in Senders : Cancel(s) /\ UNCHANGED <<nextVal, procVars, otherVars>>
    \/ \E s \in Senders : permit_send(s)
    \/ \E s \in Senders : PermitDrop(s) /\ UNCHANGED <<nextVal, procVars, otherVars>>
    \/ \E s \in Senders : MetricsInc(s) /\ UNCHANGED <<nextVal, procVars, otherVars>>
    \/ \E s, t \in Senders : CloneSender(s, t) /\ UNCHANGED <<nextVal, procVars, otherVars>>
    \/ \E s \in Senders : DropSender(s) /\ UNCHANGED <<nextVal, procVars, otherVars>>
    \/ Recv /\ UNCHANGED <<nextVal, procVars, otherVars>>
    \/ TryRecv /\ UNCHANGED <<nextVal, procVars, otherVars>>
    \/ MetricsDec /\ UNCHANGED <<nextVal, procVars, otherVars>>
    \/ Close /\ UNCHANGED <<nextVal, procVars, otherVars>>
    \/ DropReceiver /\ UNCHANGED <<nextVal, procVars, otherVars>>

Spec == Init /\ [][Next]_vars

\* --------------------------------------------------- the processor loop
\* channel_tests.rs 160-201: a producer fills the input channel, the
\* processor task selects between rx_in.recv() and
\* tx_out.with_permit(waiting.next()), the test receives from the output
\* channel (capacity 1).  Both channels share one basic metrics binding.
P == FirstSender

\* mutant: with_permit drives the inner future while it still waits for the
\* permit
WithPermitPollsInnerEarly(st) == st \in {"wait", "got", "fut"}

\* with_permit, channel.rs 197-204: the inner future is awaited only after
\* reserve() has resolved
WithPermitPollsInner(st) == st = "fut"

InitProc ==
    /\ kind = "queue" /\ BcStart(1) /\ WStart /\ RegStart
    /\ cap = 1
    /\ buf = <<>>
    /\ permits = cap
    /\ waiters = <<>>
    /\ sem_closed = FALSE
    /\ rx_state = "open"
    /\ tx_alive = [s \in Senders |-> s = P]
    /\ held = [s \in Senders |-> 0]
    /\ fut = [s \in Senders |-> Idle]
    /\ rx = RxIdle
    /\ gauge = 0
    /\ total_messages = <<>>
    /\ nextVal = 1
    /\ enqLog = <<>>
    /\ recvLog = <<>>
    /\ last = Outcome("none", "none", 0)
    /\ in_buf = <<>>
    /\ in_sent = 0
    /\ waiting = <<>>
    /\ ppc = "select"
    /\ pin = 0
    /\ wp_out = <<>>
    /\ wp_dropped = FALSE

\* tx_in.send(i), channel_tests.rs 190-192 (the input channel never fills)
Produce ==
    /\ in_sent < MaxIn
    /\ in_sent' = in_sent + 1
    /\ in_buf' = Append(in_buf, in_sent + 1)
    /\ gauge' = GaugeInc(gauge)
    /\ UNCHANGED <<cap, buf, permits, waiters, sem_closed, rx_state, tx_alive,
                   held, fut, rx, total_messages, enqLog, recvLog, last,
                   nextVal, waiting, ppc, pin, wp_out, wp_dropped>>
    /\ UNCHANGED otherVars

\* the recv branch completes: Some(input) = rx_in.recv(), line 174
ProcRecv ==
    /\ ppc = "select"
    /\ in_buf # <<>>
    /\ pin' = Head(in_buf)
    /\ in_buf' = Tail(in_buf)
    /\ gauge' = GaugeDec(gauge)
    /\ ppc' = "arm"
    /\ UNCHANGED <<cap, buf, permits, waiters, sem_closed, rx_state, tx_alive,
                   held, fut, rx, total_messages, enqLog, recvLog, last,
                   nextVal, in_sent, waiting, wp_out, wp_dropped>>
    /\ UNCHANGED otherVars

\* select! drops the losing with_permit future, then the arm runs:
\* waiting.push(ready(input)), line 175
ProcArm ==
    /\ ppc = "arm"
    /\ IF fut[P] = Idle THEN UNCHANGED chanVars ELSE Cancel(P)
    /\ wp_out' = <<>>
    /\ wp_dropped' = (wp_dropped \/ fut[P] # Idle)
    /\ waiting' = Append(waiting, pin)
    /\ pin' = 0
    /\ ppc' = "select"
    /\ UNCHANGED <<nextVal, in_buf, in_sent>>
    /\ UNCHANGED otherVars

\* the with_permit branch is polled, line 178: first poll or a later one
ProcPermit ==
    /\ ppc = "select"
    /\ IF fut[P] = Idle THEN Call(P, "with_permit", 0) ELSE Poll(P)
    /\ ppc' = IF fut'[P].st = "fut" THEN "inner"
              ELSE IF fut'[P] = Idle THEN "done" ELSE "select"
    /\ wp_out' = IF fut'[P] = Idle THEN <<>> ELSE wp_out
    /\ UNCHANGED <<nextVal, in_buf, in_sent, waiting, pin, wp_dropped>>
    /\ UNCHANGED otherVars

\* with_permit polls its inner future waiting.next(): the oldest ready
\* input, or None when the set is empty
ProcInner ==
    /\ ppc \in {"select", "inner"}
    /\ WithPermitPollsInner(fut[P].st)
    /\ wp_out = <<>>
    /\ wp_out' = IF waiting = <<>> THEN <<0>> ELSE <<Head(waiting)>>
    /\ waiting' = IF waiting = <<>> THEN waiting ELSE Tail(waiting)
    /\ UNCHANGED <<chanVars, nextVal, in_buf, in_sent, ppc, pin, wp_dropped>>
    /\ UNCHANGED otherVars

\* with_permit returns Ok((permit, output)), lines 179-183
ProcDone ==
    /\ ppc = "inner"
    /\ wp_out # <<>>
    /\ WithPermitDone(P)
    /\ ppc' = IF wp_out[1] = 0 THEN "drop" ELSE "send"
    /\ UNCHANGED <<nextVal, in_buf, in_sent, waiting, pin, wp_out, wp_dropped>>
    /\ UNCHANGED otherVars

\* Ok((permit, Some(value))) => permit.send(value), line 180
ProcSend ==
    /\ ppc = "send"
    /\ PermitSend(P, wp_out[1])
    /\ wp_out' = <<>>
    /\ ppc' = "inc"
    /\ UNCHANGED <<nextVal, in_buf, in_sent, waiting, pin, wp_dropped>>
    /\ UNCHANGED otherVars

ProcInc ==
    /\ ppc = "inc"
    /\ MetricsInc(P)
    /\ ppc' = "select"
    /\ UNCHANGED <<nextVal, in_buf, in_sent, waiting, pin, wp_out, wp_dropped>>
    /\ UNCHANGED otherVars

\* _ => continue, line 182: the permit is dropped unused
ProcDrop ==
    /\ ppc = "drop"
    /\ PermitDrop(P)
    /\ wp_out' = <<>>
    /\ ppc' = "select"
    /\ UNCHANGED <<nextVal, in_buf, in_sent, waiting, pin, wp_dropped>>
    /\ UNCHANGED otherVars

\* rx_out.recv(), line 196
OutRecv == Recv /\ UNCHANGED <<nextVal, procVars, otherVars>>
OutMetricsDec == MetricsDec /\ UNCHANGED <<nextVal, procVars, otherVars>>

NextProc ==
    \/ Produce
    \/ ProcRecv
    \/ ProcArm
    \/ ProcPermit
    \/ ProcInner
    \/ ProcDone
    \/ ProcSend
    \/ ProcInc
    \/ ProcDrop
    \/ OutRecv
    \/ OutMetricsDec

\* every task is scheduled again; select! picks its branches in random
\* order, so a recv branch that is ready again and again is taken
SpecProc ==
    /\ InitProc /\ [][NextProc]_vars
    /\ WF_vars(Produce) /\ SF_vars(ProcRecv) /\ WF_vars(ProcArm)
    /\ WF_vars(ProcPermit) /\ WF_vars(ProcInner) /\ WF_vars(ProcDone)
    /\ WF_vars(ProcSend) /\ WF_vars(ProcInc) /\ WF_vars(ProcDrop)
    /\ WF_vars(OutRecv) /\ WF_vars(OutMetricsDec)

\* the scheduler polls a woken future again
FairSpec ==
    Spec /\ \A s \in Senders : WF_vars(Poll(s) /\ UNCHANGED <<nextVal, procVars, otherVars>>)

\* ================================================================ claims
\* no operation is between its effect on the channel and its metrics update
Quiescent == (\A s \in Senders : fut[s].st # "inc") /\ rx.st # "dec"

\* permits the semaphore has assigned to futures that were not polled since
Assigned == Cardinality({s \in Senders : fut[s].st = "got"})

\* slots bound neither to a buffered value nor to a live Permit
FreeSlots == permits + Assigned

Failed(op) == last' # last /\ last'.op = op /\ last'.out \notin {"Ok", "Cancelled"}

\* C1: at every point with no operation in flight the gauge equals the number
\* of successful enqueues (send, try_send, permit send) minus the number of
\* successful dequeues (recv, try_recv), and lies in 0..C.
C1_GaugeIsSentMinusReceived ==
    Quiescent => /\ gauge = Len(enqLog) - Len(recvLog)
                 /\ 0 <= gauge
                 /\ gauge <= cap

C1_Witness ==
    /\ Quiescent
    /\ rx_state = "dropped"
    /\ Len(recvLog) >= 1
    /\ gauge = 1
    /\ last = Outcome("permit_send", "Ok", 2)

\* C2: buffered values plus live permits (plus permits assigned to pending
\* futures) never exceed the capacity, so the slot of a live permit is never
\* handed to another reserve, send or try_send.
C2_PermitSlotExclusive == Len(buf) + LivePermits + Assigned <= cap

C2_Witness ==
    /\ cap = 1
    /\ LivePermits = 1
    /\ \E s \in Senders : fut[s].op = "reserve" /\ fut[s].st = "wait"

\* C3: a step that drops an unused permit (Permit dropped, or a with_permit
\* future dropped while it holds its permit) frees exactly one slot, leaves
\* buffer, gauge and counter alone and hands the slot to the oldest waiter;
\* a reserve that was handed a slot is granted its permit when polled; slots
\* are conserved; a permit send consumes one permit for one value.
PermitDropped == LivePermits' = LivePermits - 1 /\ enqLog' = enqLog

C3_DropReleasesOneSlot ==
    /\ [](permits + Assigned + LivePermits + Len(buf) = cap)
    /\ [][PermitDropped =>
            /\ FreeSlots' = FreeSlots + 1
            /\ UNCHANGED <<buf, gauge, total_messages>>
            /\ (waiters # <<>> => fut'[Head(waiters)].st = "got")]_vars
    /\ [][\A s \in Senders :
            (/\ fut[s].op = "reserve" /\ fut[s].st = "got" /\ fut'[s] = Idle
             /\ ~sem_closed /\ last'.out # "Cancelled")
            => held'[s] = held[s] + 1 /\ last'.out = "Ok"]_vars
    /\ [][\A s \in Senders :
            (fut[s] = Idle /\ fut'[s].op = "permit_send")
            => /\ LivePermits' = LivePermits - 1
               /\ Len(enqLog') = Len(enqLog) + 1]_vars

C3_Witness ==
    /\ last.op = "permit_drop"
    /\ \E s \in Senders : fut[s].op = "reserve" /\ fut[s].st = "got" /\ held[s] = 0

\* C4: before its permit is obtained a with_permit has not polled its inner
\* future; a with_permit that pends, and its cancellation before the permit
\* is obtained, enqueue nothing and leave
\* buffer, free capacity, gauge, counter and permits held as they were; the
\* dropped future is no longer queued.
WpBeforePermit(s) == fut[s].op = "with_permit" /\ fut[s].st \in {"wait", "got"}

C4_CancelBeforePermit ==
    /\ [](\A s \in Senders :
            WpBeforePermit(s) => ~WithPermitPollsInner(fut[s].st))
    /\ [][\A s \in Senders :
           /\ (fut[s] = Idle /\ fut'[s].op = "with_permit" /\ fut'[s].st = "wait")
              => /\ UNCHANGED <<buf, enqLog, gauge, total_messages, held, permits>>
                 /\ FreeSlots' = FreeSlots
           /\ (/\ WpBeforePermit(s) /\ fut'[s] = Idle
               /\ last' = Outcome("with_permit", "Cancelled", 0))
              => /\ UNCHANGED <<buf, enqLog, gauge, total_messages, held>>
                 /\ FreeSlots' = FreeSlots
                 /\ (fut[s].st = "wait" => permits' = permits)
                 /\ \A i \in 1..Len(waiters') : waiters'[i] # s]_vars

C4_Witness ==
    /\ last = Outcome("with_permit", "Cancelled", 0)
    /\ buf # <<>>
    /\ waiters # <<>>

\* C5: in the processor loop with an output channel of capacity 1 the
\* inputs 1..in_sent are, in this order and each exactly once, the values
\* received from the output, then the value buffered in it, the value
\* with_permit returned, the inputs waiting, the input just received and
\* the inputs still in the input channel; every input sent is eventually
\* received from the output.
Upto(n) == [i \in 1..n |-> i]

C5_NoLossNoDup ==
    /\ [](recvLog \o buf
            \o (IF wp_out # <<>> /\ wp_out # <<0>> THEN wp_out ELSE <<>>)
            \o waiting
            \o (IF pin # 0 THEN <<pin>> ELSE <<>>)
            \o in_buf
          = Upto(in_sent))
    /\ \A v \in 1..MaxIn :
          (in_sent >= v) ~> (Len(recvLog) >= v /\ recvLog[v] = v)

\* a pending with_permit future was dropped on the way, and all inputs were
\* received from the output all the same
C5_Witness ==
    /\ wp_dropped
    /\ in_sent = MaxIn
    /\ recvLog = Upto(MaxIn)
    /\ last = Outcome("recv", "Some", MaxIn)

\* C6: with no free slot on an open channel try_send returns Full(v) and
\* changes nothing, and a send pends; a pending send enqueues only after a
\* slot was handed to it, which a dequeue does for the oldest waiter; with a
\* free slot try_send does not fail; a send that was handed a slot enqueues
\* its value unless the channel closes or the future is dropped.
C6_Backpressure ==
    /\ [][(permits = 0 /\ ~sem_closed) =>
            /\ \A s \in Senders : fut[s] = Idle =>
                  /\ fut'[s].op # "try_send"
                  /\ (fut'[s].op = "send" => fut'[s].st = "wait")
            /\ Failed("try_send") =>
                  /\ last' = Outcome("try_send", "Full", nextVal)
                  /\ UNCHANGED <<buf, enqLog, gauge, total_messages, permits>>]_vars
    /\ [][(permits > 0 /\ ~sem_closed) => ~Failed("try_send")]_vars
    /\ [][\A s \in Senders :
            (fut[s].op = "send" /\ fut[s].st \in {"wait", "got"} /\ fut'[s].st = "inc")
            => fut[s].st = "got" /\ Len(buf) + LivePermits < cap]_vars
    /\ [][(recvLog' # recvLog /\ waiters # <<>>)
            => fut'[Head(waiters)].st = "got"]_vars
    /\ \A s \in Senders : \A v \in 1..MaxVal :
          (fut[s] = [op |-> "send", st |-> "got", v |-> v])
          ~> \/ \E i \in 1..Len(enqLog) : enqLog[i] = v
             \/ sem_closed
             \/ last = Outcome("send", "Cancelled", v)

C6_Witness ==
    /\ cap = 1
    /\ recvLog = <<1>>
    /\ buf = <<2>>
    /\ \E s \in Senders : fut[s] = [op |-> "send", st |-> "inc", v |-> 2]
    /\ last = Outcome("recv", "Some", 1)

\* C7: once the receiver has closed or is dropped, is_closed is true, no
\* send or try_send enqueues or pends, and each fails with Closed carrying
\* the value it was given, leaving buffer, gauge and counter alone.
PassedValue ==
    IF \E s \in Senders : fut[s].op = "send" /\ fut'[s] = Idle
    THEN (CHOOSE f \in {fut[s] : s \in {x \in Senders :
                          fut[x].op = "send" /\ fut'[x] = Idle}} : TRUE).v
    ELSE nextVal

C7_ClosedGivesValueBack ==
    /\ [](rx_state # "open" => is_closed)
    /\ [][rx_state # "open" =>
            /\ \A s \in Senders :
                  /\ (fut[s].st # "inc" /\ fut'[s].st = "inc")
                        => fut'[s].op = "permit_send"
                  /\ fut[s] = Idle => fut'[s].st \notin {"wait", "got", "fut"}
            /\ (Failed("send") \/ Failed("try_send")) =>
                  /\ last'.out = "Closed"
                  /\ last'.v = PassedValue
                  /\ UNCHANGED <<buf, enqLog, gauge, total_messages>>]_vars

C7_Witness ==
    /\ rx_state = "dropped"
    /\ last = Outcome("send", "Closed", 2)
    /\ enqLog = <<1>>

\* C8 as stated: try_send looks at the capacity before the closed state:
\* Full with no free slot, Closed only when closed with a free slot.
TrySendOut ==
    LET r == InnerTrySend(nextVal)
    IN IF r.ok THEN "Ok" ELSE FromTrySendError(r.err).kind

C8_FullBeforeClosed ==
    (\E s \in Senders : CanCall(s)) =>
        TrySendOut = (IF permits = 0 THEN "Full"
                      ELSE IF sem_closed THEN "Closed" ELSE "Ok")

\* C8 amended: try_send looks at the closed state first: a failing try_send
\* returns Closed(v) exactly when the channel is closed, whether or not a
\* slot is free, and Full(v) exactly when it is open with no free slot; on
\* an open channel with a free slot it enqueues.
C8_ClosedBeforeFull ==
    /\ [][Failed("try_send") =>
            /\ last'.out = (IF sem_closed THEN "Closed" ELSE "Full")
            /\ (last'.out = "Full" => permits = 0)
            /\ last'.v = nextVal]_vars
    /\ [][\A s \in Senders :
            (fut[s] = Idle /\ fut'[s].op = "try_send")
            => ~sem_closed /\ permits > 0]_vars

C8_Witness ==
    /\ last = Outcome("try_send", "Closed", 2)
    /\ permits = 0
    /\ buf = <<1>>
    /\ cap = 1
    /\ rx_state = "closed"

\* the channel is Closed: receiver closed or dropped, or every sender dropped
ChannelClosed == sem_closed \/ TxClosed

\* C9 as stated: on a closed channel the buffered values are still received
\* and, once drained, recv resolves to None and try_recv reports the
\* disconnect; try_recv reports Empty only on an open channel.
C9_DrainThenEnd ==
    rx_state # "dropped" =>
       /\ buf # <<>> => /\ InnerRecv = [kind |-> "Value", v |-> Head(buf)]
                        /\ InnerTryRecv = [kind |-> "Value", v |-> Head(buf)]
       /\ (buf = <<>> /\ ChannelClosed) => /\ InnerRecv.kind = "None"
                                           /\ InnerTryRecv.kind = "Disconnected"
       /\ (buf = <<>> /\ ~ChannelClosed) => /\ InnerRecv.kind = "Pending"
                                            /\ InnerTryRecv.kind = "Empty"

\* C9 amended: on a closed channel the buffered values are still received in
\* order, each followed by a gauge decrement; once drained, recv resolves to
\* None when every sender is dropped or when the receiver has closed and no
\* permit is outstanding, and pends while a permit reserved before the close
\* is outstanding (held as a Permit, or assigned to a pending future); try_recv reports Disconnected only when every sender is
\* dropped, and Empty whenever nothing is buffered and a sender is alive,
\* also after close().
C9_DrainThenEndAmended ==
    /\ [](rx_state # "dropped" =>
           /\ enqLog = recvLog \o buf
           /\ buf # <<>> => /\ InnerRecv = [kind |-> "Value", v |-> Head(buf)]
                            /\ InnerTryRecv = [kind |-> "Value", v |-> Head(buf)]
           /\ buf = <<>> =>
                /\ InnerRecv.kind = (IF TxClosed \/ (rx_state = "closed" /\ LivePermits + Assigned = 0)
                                     THEN "None" ELSE "Pending")
                /\ InnerTryRecv.kind = (IF TxClosed THEN "Disconnected" ELSE "Empty"))
    /\ [][(ChannelClosed /\ last' # last /\ last'.op \in {"recv", "try_recv"}) =>
            \/ /\ last'.out = "Some"
               /\ rx.st = "dec" /\ last'.v = rx.v
               /\ gauge' = gauge - 1
               /\ recvLog[Len(recvLog)] = rx.v
            \/ /\ last'.out \in {"None", "Disconnected", "Empty"}
               /\ buf = <<>>
               /\ UNCHANGED <<gauge, recvLog, buf>>
               /\ (last'.out = "Disconnected" <=> (last'.op = "try_recv" /\ TxClosed))
               /\ (last'.out = "Empty" <=> (last'.op = "try_recv" /\ ~TxClosed))]_vars

C9_Witness ==
    /\ rx_state = "closed"
    /\ LivePermits = 1
    /\ recvLog = <<1>>
    /\ buf = <<>>
    /\ last = Outcome("try_recv", "Empty", 0)
    /\ InnerRecv.kind = "Pending"

\* C10: while the receiver is alive the values received, followed by the
\* values buffered, are the values enqueued, in the order their enqueues
\* completed: no reordering, duplication or loss; a value sent through a
\* permit takes its place when Permit::send runs.
C10_FifoByEnqueue ==
    /\ rx_state # "dropped" => enqLog = recvLog \o buf
    /\ \A i, j \in 1..Len(enqLog) : i # j => enqLog[i] # enqLog[j]
    /\ rx.st = "dec" => recvLog # <<>> /\ rx.v = recvLog[Len(recvLog)]

\* the permit was granted when nothing had been enqueued; value 1 was
\* enqueued next, value 2 through the permit after it, and 1 is received
\* first
C10_Witness ==
    /\ last.op = "reserve" /\ last.out = "Ok" /\ last.v = 0
    /\ enqLog = <<1, 2>>
    /\ \E s \in Senders : fut[s] = [op |-> "permit_send", st |-> "inc", v |-> 2]
    /\ recvLog = <<1>>
    /\ buf = <<2>>

\* C11: with the full metrics variant the lifetime counter moves only in the
\* metrics update that follows a successful send, try_send or permit send,
\* and then by exactly one; at every quiescent point it equals the number of
\* values enqueued.
C11_CounterCountsEnqueues ==
    /\ [](Quiescent => total_messages = <<Len(enqLog)>>)
    /\ [][total_messages' # total_messages =>
            /\ total_messages' = <<total_messages[1] + 1>>
            /\ \E s \in Senders :
                  /\ fut[s].st = "inc" /\ fut'[s] = Idle
                  /\ fut[s].op \in {"send", "try_send", "permit_send"}
                  /\ last' = Outcome(fut[s].op, "Ok", fut[s].v)]_vars

\* one value was counted; the receive, the close and the failed try_send
\* after it were not
C11_Witness ==
    /\ Quiescent
    /\ total_messages = <<1>>
    /\ recvLog = <<1>>
    /\ rx_state = "closed"
    /\ last = Outcome("try_send", "Closed", 2)

\* C12 as stated: at every quiescent point the gauge is the number of values
\* buffered in the channel, which lies in 0..C.
C12_GaugeIsBuffered ==
    Quiescent => /\ gauge = Len(buf)
                 /\ 0 <= Len(buf)
                 /\ Len(buf) <= cap

\* ================================================= the broadcast channel
\* src/src/broadcast.rs wraps tokio's broadcast channel: a ring that retains
\* the most recent values, one cursor per receiver.  The ring is the tail of
\* bc_log; a send succeeds while a receiver is alive.
notBc == <<chanVars, nextVal, procVars, kind, wVars, regVars>>

\* broadcast::channel(capacity), broadcast.rs 51: tokio rounds the capacity
\* up to a power of two, which is the number of values the ring retains
RECURSIVE Pow2From(_, _)
Pow2From(p, n) == IF p >= n THEN p ELSE Pow2From(2 * p, n)

\* mutant: the ring retains exactly `capacity` values
next_power_of_two_exact(n) == n

next_power_of_two(n) == Pow2From(1, n)

BufLen == next_power_of_two(bc_cap)

\* inner.receiver_count(), broadcast.rs 100-102
receiver_count == Cardinality({r \in Subs : bc_sub[r] = "live"})

\* every Sender handle is dropped: the ring carries the closed mark
BcTxClosed == \A s \in Senders : ~bc_tx[s]

\* the inner receive of subscriber r (broadcast.rs 108, 122): nothing unread
\* gives Closed once every sender is gone and Empty before (recv suspends);
\* a cursor that fell out of the ring is moved to the oldest retained value
\* and the number of values missed is reported; else the value at the
\* cursor.  `next` is where the cursor is left.
\* mutant: the closed mark is reported before the unread values
InnerBcRecvClosedFirst(r) ==
    LET tail == Len(bc_log)
        n == bc_next[r]
    IN IF BcTxClosed
       THEN [kind |-> "Closed", v |-> 0, next |-> n]
       ELSE IF n = tail
       THEN [kind |-> "Empty", v |-> 0, next |-> n]
       ELSE IF tail - n > BufLen
       THEN [kind |-> "Lagged", v |-> tail - BufLen - n, next |-> tail - BufLen]
       ELSE [kind |-> "Value", v |-> bc_log[n + 1], next |-> n + 1]

InnerBcRecv(r) ==
    LET tail == Len(bc_log)
        n == bc_next[r]
    IN IF n = tail
       THEN [kind |-> IF BcTxClosed THEN "Closed" ELSE "Empty", v |-> 0, next |-> n]
       ELSE IF tail - n > BufLen
       THEN [kind |-> "Lagged", v |-> tail - BufLen - n, next |-> tail - BufLen]
       ELSE [kind |-> "Value", v |-> bc_log[n + 1], next |-> n + 1]

\* Sender::send, broadcast.rs 72-88: the inner send fails when no receiver
\* is alive and gives the value back; on Ok the gauge and the counter are
\* incremented
BcSend(s) ==
    /\ bc_tx[s]
    /\ Len(bc_log) < MaxBcSend
    /\ LET v == Len(bc_log) + 1 IN
       IF receiver_count = 0
       THEN /\ bc_last' = Outcome("send", "Closed", v)
            /\ bc_closed_seen' = TRUE
            /\ UNCHANGED <<bc_log, bc_gauge, bc_total>>
       ELSE /\ bc_log' = Append(bc_log, v)
            /\ bc_gauge' = GaugeInc(bc_gauge)
            /\ bc_total' = CounterInc(bc_total)
            /\ bc_last' = Outcome("send", "Ok", v)
            /\ UNCHANGED bc_closed_seen
    /\ UNCHANGED <<bc_cap, bc_next, bc_sub, bc_tx, bc_got, bc_from, bc_nrecv,
                   notBc>>

\* inner.subscribe(), broadcast.rs 93: the new cursor is at the tail
\* mutant: the new cursor is at the oldest retained value
TailPosOldest == IF Len(bc_log) > BufLen THEN Len(bc_log) - BufLen ELSE 0

TailPos == Len(bc_log)

\* Sender::subscribe, broadcast.rs 91-97
BcSubscribe(s, r) ==
    /\ bc_tx[s]
    /\ bc_sub[r] = "none"
    /\ bc_sub' = [bc_sub EXCEPT ![r] = "live"]
    /\ bc_next' = [bc_next EXCEPT ![r] = TailPos]
    /\ bc_from' = [bc_from EXCEPT ![r] = Len(bc_log)]
    /\ UNCHANGED <<bc_cap, bc_log, bc_tx, bc_gauge, bc_total, bc_got, bc_nrecv,
                   bc_closed_seen, bc_last, notBc>>

\* a Receiver is dropped
BcDropSub(r) ==
    /\ bc_sub[r] = "live"
    /\ bc_sub' = [bc_sub EXCEPT ![r] = "dropped"]
    /\ UNCHANGED <<bc_cap, bc_log, bc_next, bc_tx, bc_gauge, bc_total, bc_got,
                   bc_from, bc_nrecv, bc_closed_seen, bc_last, notBc>>

\* #[derive(Clone)] on Sender, broadcast.rs 34
BcCloneSender(s, t) ==
    /\ bc_tx[s] /\ ~bc_tx[t]
    /\ bc_tx' = [bc_tx EXCEPT ![t] = TRUE]
    /\ UNCHANGED <<bc_cap, bc_log, bc_next, bc_sub, bc_gauge, bc_total, bc_got,
                   bc_from, bc_nrecv, bc_closed_seen, bc_last, notBc>>

\* a Sender is dropped; the last drop closes the channel
BcDropSender(s) ==
    /\ bc_tx[s]
    /\ bc_tx' = [bc_tx EXCEPT ![s] = FALSE]
    /\ UNCHANGED <<bc_cap, bc_log, bc_next, bc_sub, bc_gauge, bc_total, bc_got,
                   bc_from, bc_nrecv, bc_closed_seen, bc_last, notBc>>

\* the Ok arm: recv counts the message (broadcast.rs 111-113), try_recv does
\* not (broadcast.rs 123-126)
\* mutant: neither counts the message
BcCountsNever(op) == FALSE

BcCounts(op) == op = "recv"

\* the match on the inner result, broadcast.rs 108-117 and 122-128, as what
\* the call returns and where it leaves cursor, gauge and counter: Ok(msg)
\* decrements the gauge (and counts, for recv); Err(e) is returned as it is
BcEffect(r, op) ==
    LET m == InnerBcRecv(r)
        ok == m.kind = "Value"
    IN [out |-> IF ok THEN "Ok" ELSE m.kind,
        v |-> m.v,
        next |-> m.next,
        gauge |-> IF ok THEN GaugeDec(bc_gauge) ELSE bc_gauge,
        total |-> IF ok /\ BcCounts(op) THEN CounterInc(bc_total) ELSE bc_total]

BcReceived(r, op) ==
    LET e == BcEffect(r, op) IN
    /\ bc_next' = [bc_next EXCEPT ![r] = e.next]
    /\ bc_gauge' = e.gauge
    /\ bc_total' = e.total
    /\ bc_last' = Outcome(op, e.out, e.v)
    /\ bc_got' = IF e.out = "Ok" THEN [bc_got EXCEPT ![r] = Append(@, e.v)]
                 ELSE bc_got
    /\ bc_nrecv' = IF e.out = "Ok" /\ op = "recv" THEN bc_nrecv + 1 ELSE bc_nrecv
    /\ UNCHANGED <<bc_cap, bc_log, bc_sub, bc_tx, bc_from, bc_closed_seen, notBc>>

\* Receiver::recv, broadcast.rs 107-118: suspended while nothing is unread
\* and a sender is alive
BcRecv(r) ==
    /\ bc_sub[r] = "live"
    /\ InnerBcRecv(r).kind # "Empty"
    /\ BcReceived(r, "recv")

\* Receiver::try_recv, broadcast.rs 121-129
BcTryRecv(r) ==
    /\ bc_sub[r] = "live"
    /\ BcReceived(r, "try_recv")

InitBc ==
    /\ kind = "broadcast"
    /\ \E c \in 1..MaxBcCap : BcStart(c)
    /\ WStart
    /\ RegStart
    /\ cap = 1
    /\ buf = <<>>
    /\ permits = cap
    /\ waiters = <<>>
    /\ sem_closed = FALSE
    /\ rx_state = "open"
    /\ tx_alive = [s \in Senders |-> s = FirstSender]
    /\ held = [s \in Senders |-> 0]
    /\ fut = [s \in Senders |-> Idle]
    /\ rx = RxIdle
    /\ gauge = 0
    /\ total_messages = <<0>>
    /\ nextVal = 1
    /\ enqLog = <<>>
    /\ recvLog = <<>>
    /\ last = Outcome("none", "none", 0)
    /\ in_buf = <<>>
    /\ in_sent = 0
    /\ waiting = <<>>
    /\ ppc = "select"
    /\ pin = 0
    /\ wp_out = <<>>
    /\ wp_dropped = FALSE

NextBc ==
    \/ \E s \in Senders : BcSend(s)
    \/ \E s \in Senders : \E r \in Subs : BcSubscribe(s, r)
    \/ \E r \in Subs : BcDropSub(r)
    \/ \E s, u \in Senders : BcCloneSender(s, u)
    \/ \E s \in Senders : BcDropSender(s)
    \/ \E r \in Subs : BcRecv(r)
    \/ \E r \in Subs : BcTryRecv(r)

SpecBc == InitBc /\ [][NextBc]_vars

\* ------------------------------------------------------ broadcast claims
\* values sent that subscriber r has not passed
Unread(r) == Len(bc_log) - bc_next[r]

\* the step is a recv or try_recv of live subscriber r that moved its cursor
BcCursorMoved(r) == bc_sub[r] = "live" /\ bc_next'[r] # bc_next[r]

\* the smallest power of two that is at least c
Pow2AtLeast(c) ==
    CHOOSE p \in 1..(2 * c) : /\ \E k \in 0..c : p = 2 ^ k
                              /\ p >= c
                              /\ p < 2 * c

Increasing(s) == \A i, j \in 1..Len(s) : i < j => s[i] < s[j]

\* C16: what a subscriber received is, in send order and each value once,
\* a part of the values sent after the subscriber was created and up to its
\* cursor; a subscriber that cannot have lagged (no more values were sent
\* since its creation than the ring retains) received every one of them;
\* a value it has not reached yet is still to come.
C16_EachOnceInSendOrder ==
    /\ \A i \in 1..Len(bc_log) : bc_log[i] = i
    /\ \A r \in Subs :
          /\ Increasing(bc_got[r])
          /\ \A i \in 1..Len(bc_got[r]) :
                /\ bc_got[r][i] > bc_from[r]
                /\ bc_got[r][i] <= bc_next[r]
                /\ bc_log[bc_got[r][i]] = bc_got[r][i]
          /\ bc_from[r] <= bc_next[r] /\ bc_next[r] <= Len(bc_log)
          /\ (bc_sub[r] # "none" /\ Len(bc_log) - bc_from[r] <= Pow2AtLeast(bc_cap))
                => bc_got[r] = SubSeq(bc_log, bc_from[r] + 1, bc_next[r])
          /\ (bc_sub[r] = "live" /\ Unread(r) > 0 /\ Unread(r) <= Pow2AtLeast(bc_cap))
                => InnerBcRecv(r).v = bc_log[bc_next[r] + 1]

\* rx2 was subscribed after value 1 was sent: rx1 received 1, 2 and 3, rx2
\* received 2 and 3, their receives interleaved
C16_Witness ==
    /\ bc_log = <<1, 2, 3>>
    /\ bc_from = [r \in Subs |-> IF r = FirstSub THEN 0 ELSE 1]
    /\ bc_got[FirstSub] = <<1, 2, 3>>
    /\ \A r \in Subs \ {FirstSub} : bc_got[r] = <<2, 3>> /\ bc_sub[r] = "live"
    /\ bc_last = Outcome("try_recv", "Ok", 3)

\* values received by all subscribers together
BcReceivedCount ==
    LET Sum[S \in SUBSET Subs] ==
          IF S = {} THEN 0
          ELSE LET r == CHOOSE x \in S : TRUE
               IN Len(bc_got[r]) + Sum[S \ {r}]
    IN Sum[Subs]

\* C17: the broadcast gauge is the number of successful sends minus the
\* number of values received by all subscribers together, at every point
\* between calls; a send adds one whatever the number of subscribers, each
\* successful recv / try_recv takes one, nothing else moves the gauge; it
\* is negative once more than one subscriber has consumed a value.
C17_GaugeSendsMinusReceives ==
    /\ [](bc_gauge = Len(bc_log) - BcReceivedCount)
    /\ [][bc_gauge' # bc_gauge =>
            \/ /\ bc_last' = Outcome("send", "Ok", Len(bc_log'))
               /\ bc_gauge' = bc_gauge + 1
               /\ Len(bc_log') = Len(bc_log) + 1
            \/ /\ bc_last'.op \in {"recv", "try_recv"} /\ bc_last'.out = "Ok"
               /\ bc_gauge' = bc_gauge - 1
               /\ BcReceivedCount' = BcReceivedCount + 1]_vars

\* one value sent, received by both subscribers: the gauge is 1 - 2
C17_Witness ==
    /\ bc_log = <<1>>
    /\ \A r \in Subs : bc_got[r] = <<1>>
    /\ bc_gauge = 1 - Cardinality(Subs)

\* C18: with the full metrics variant the broadcast counter is the number of
\* successful sends plus the number of successful recv() calls.
C18_CounterSendsPlusRecvs == bc_total = <<Len(bc_log) + bc_nrecv>>

\* two sends, two recv(): 4
C18_Witness ==
    /\ bc_log = <<1, 2>>
    /\ bc_got[FirstSub] = <<1, 2>>
    /\ bc_nrecv = 2
    /\ bc_total = <<4>>
    /\ bc_last = Outcome("recv", "Ok", 2)

\* C19 as stated: where recv() resolves at once, try_recv() returns the same
\* outcome and leaves cursor, gauge and counter where recv() leaves them.
C19_TryRecvIsRecv ==
    \A r \in Subs :
       (bc_sub[r] = "live" /\ InnerBcRecv(r).kind # "Empty")
       => BcEffect(r, "try_recv") = BcEffect(r, "recv")

\* C20: a receive fails with Closed exactly when every sender is dropped and
\* the subscriber has nothing unread, and reports nothing unread (Empty from
\* try_recv, recv suspended) exactly when a sender is alive and the
\* subscriber has nothing unread; an unread value is delivered (or the lag
\* reported) also after the last sender is dropped; once every sender is
\* dropped no sender comes back and nothing more is sent.
C20_ClosedWhenCaughtUp ==
    /\ [](\A r \in Subs : bc_sub[r] = "live" =>
            /\ InnerBcRecv(r).kind = "Closed" <=> (BcTxClosed /\ Unread(r) = 0)
            /\ InnerBcRecv(r).kind = "Empty" <=> (~BcTxClosed /\ Unread(r) = 0)
            /\ ENABLED BcRecv(r) <=> (BcTxClosed \/ Unread(r) > 0))
    /\ [][BcTxClosed => BcTxClosed' /\ bc_log' = bc_log]_vars
    /\ [][(bc_last' # bc_last /\ bc_last'.op \in {"recv", "try_recv"}) =>
            /\ bc_last'.out = "Closed" =>
                  /\ BcTxClosed
                  /\ \E r \in Subs : bc_sub[r] = "live" /\ Unread(r) = 0
                  /\ UNCHANGED <<bc_next, bc_got, bc_gauge, bc_total>>
            /\ bc_last'.out = "Empty" =>
                  /\ bc_last'.op = "try_recv"
                  /\ ~BcTxClosed
                  /\ \E r \in Subs : bc_sub[r] = "live" /\ Unread(r) = 0
                  /\ UNCHANGED <<bc_next, bc_got, bc_gauge, bc_total>>]_vars

\* every sender is dropped: rx1 has received 1 and 2 and its recv failed
\* with Closed, while value 2 is still there for rx2
C20_Witness ==
    /\ BcTxClosed
    /\ bc_log = <<1, 2>>
    /\ bc_got[FirstSub] = <<1, 2>>
    /\ bc_last = Outcome("recv", "Closed", 0)
    /\ \A r \in Subs \ {FirstSub} :
          /\ bc_sub[r] = "live" /\ bc_got[r] = <<1>>
          /\ InnerBcRecv(r).kind = "Value" /\ InnerBcRecv(r).v = 2

\* ================================================== suspended receives
\* the places where a receiving future can be dropped: it is suspended at
\* its only .await (channel.rs 132, watch.rs 111); from the inner call's
\* result to the return there is no await.
\* mutant: the future can also be dropped before its metrics update
AwaitPointAnywhere(st) == st \in {"wait", "dec"}

AwaitPoint(st) == st = "wait"

\* Receiver::recv, channel.rs 130-132: the inner recv is pending and the
\* future suspends
RecvSuspend ==
    /\ rx_state # "dropped" /\ rx = RxIdle
    /\ InnerRecv.kind = "Pending"
    /\ rx' = [op |-> "recv", st |-> "wait", v |-> 0]
    /\ UNCHANGED <<cap, buf, permits, waiters, sem_closed, rx_state, tx_alive,
                   held, fut, gauge, total_messages, enqLog, recvLog, last>>

\* the suspended recv is woken and polled again, channel.rs 132-139
RecvResume ==
    /\ rx.st = "wait"
    /\ RecvPoll

\* the recv future is dropped
RecvCancel ==
    /\ AwaitPoint(rx.st)
    /\ rx' = RxIdle
    /\ last' = Outcome("recv", "Cancelled", 0)
    /\ UNCHANGED <<cap, buf, permits, waiters, sem_closed, rx_state, tx_alive,
                   held, fut, gauge, total_messages, enqLog, recvLog>>

\* ======================================================= watch channel
notW == <<chanVars, nextVal, procVars, kind, bcVars, regVars>>

\* mutant: dropped receivers are still counted
WReceiverCountCreated == Cardinality({r \in Subs : w_sub[r] # "none"})

WReceiverCount == Cardinality({r \in Subs : w_sub[r] = "live"})

\* Sender::send, watch.rs 79-82 and 89-92: the inner send fails, giving the
\* value back, when no receiver exists; else it replaces the value and
\* bumps the version
WSend ==
    /\ w_tx_alive /\ w_tx = Idle
    /\ w_version < MaxWSend
    /\ LET v == w_version + 1 IN
       IF WReceiverCount = 0
       THEN /\ w_last' = Outcome("send", "Closed", v)
            /\ w_closed_seen' = TRUE
            /\ UNCHANGED <<w_value, w_version, w_tx>>
       ELSE /\ w_value' = v
            /\ w_version' = w_version + 1
            /\ w_tx' = [op |-> "send", st |-> "inc", v |-> v]
            /\ UNCHANGED <<w_last, w_closed_seen>>
    /\ UNCHANGED <<w_seen, w_sub, w_tx_alive, w_rx, w_gauge, w_total,
                   w_nchanged, notW>>

\* the Ok arm of Sender::send, watch.rs 83-88
WMetricsInc ==
    /\ w_tx.st = "inc"
    /\ w_gauge' = GaugeInc(w_gauge)
    /\ w_total' = CounterInc(w_total)
    /\ w_tx' = Idle
    /\ w_last' = Outcome("send", "Ok", w_tx.v)
    /\ UNCHANGED <<w_value, w_version, w_seen, w_sub, w_tx_alive, w_rx,
                   w_nchanged, w_closed_seen, notW>>

\* the Sender is dropped (it cannot be cloned, watch.rs 38-43)
WDropSender ==
    /\ w_tx_alive /\ w_tx = Idle
    /\ w_tx_alive' = FALSE
    /\ UNCHANGED <<w_value, w_version, w_seen, w_sub, w_tx, w_rx, w_gauge,
                   w_total, w_nchanged, w_closed_seen, w_last, notW>>

\* inner changed(): a version not yet seen resolves it; else the sender's
\* drop fails it; else it is pending
InnerChanged(r) ==
    IF w_version # w_seen[r] THEN "Ok"
    ELSE IF ~w_tx_alive THEN "Closed"
    ELSE "Pending"

\* self.inner.changed().await resolves, watch.rs 111-118: Ok marks the
\* newest version seen
WChangedPoll(r) ==
    /\ InnerChanged(r) # "Pending"
    /\ IF InnerChanged(r) = "Ok"
       THEN /\ w_seen' = [w_seen EXCEPT ![r] = w_version]
            /\ w_nchanged' = w_nchanged + 1
            /\ w_rx' = [w_rx EXCEPT ![r] = [op |-> "changed", st |-> "dec",
                                             v |-> w_version]]
            /\ UNCHANGED w_last
       ELSE /\ w_last' = Outcome("changed", "Closed", 0)
            /\ w_rx' = [w_rx EXCEPT ![r] = RxIdle]
            /\ UNCHANGED <<w_seen, w_nchanged>>
    /\ UNCHANGED <<w_value, w_version, w_sub, w_tx_alive, w_tx, w_gauge,
                   w_total, w_closed_seen, notW>>

\* Receiver::changed, watch.rs 110-119
WChanged(r) ==
    /\ w_sub[r] = "live" /\ w_rx[r] = RxIdle
    /\ IF InnerChanged(r) = "Pending"
       THEN /\ w_rx' = [w_rx EXCEPT ![r] = [op |-> "changed", st |-> "wait",
                                             v |-> 0]]
            /\ UNCHANGED <<w_value, w_version, w_seen, w_sub, w_tx_alive,
                           w_tx, w_gauge, w_total, w_nchanged, w_closed_seen,
                           w_last, notW>>
       ELSE WChangedPoll(r)

\* the suspended changed() is woken and polled again
WWake(r) ==
    /\ w_rx[r].st = "wait"
    /\ WChangedPoll(r)

\* the if result.is_ok() block of Receiver::changed, watch.rs 112-117
WMetricsDec(r) ==
    /\ w_rx[r].st = "dec"
    /\ w_gauge' = GaugeDec(w_gauge)
    /\ w_total' = CounterInc(w_total)
    /\ w_rx' = [w_rx EXCEPT ![r] = RxIdle]
    /\ w_last' = Outcome("changed", "Ok", w_rx[r].v)
    /\ UNCHANGED <<w_value, w_version, w_seen, w_sub, w_tx_alive, w_tx,
                   w_nchanged, w_closed_seen, notW>>

\* the changed() future is dropped
WCancel(r) ==
    /\ AwaitPoint(w_rx[r].st)
    /\ w_rx' = [w_rx EXCEPT ![r] = RxIdle]
    /\ w_last' = Outcome("changed", "Cancelled", 0)
    /\ UNCHANGED <<w_value, w_version, w_seen, w_sub, w_tx_alive, w_tx,
                   w_gauge, w_total, w_nchanged, w_closed_seen, notW>>

\* Receiver: Clone (watch.rs 46): the clone has seen what the original has
WCloneReceiver(r, q) ==
    /\ w_sub[r] = "live" /\ w_rx[r] = RxIdle /\ w_sub[q] = "none"
    /\ w_sub' = [w_sub EXCEPT ![q] = "live"]
    /\ w_seen' = [w_seen EXCEPT ![q] = w_seen[r]]
    /\ UNCHANGED <<w_value, w_version, w_tx_alive, w_tx, w_rx, w_gauge,
                   w_total, w_nchanged, w_closed_seen, w_last, notW>>

\* a Receiver is dropped
WDropReceiver(r) ==
    /\ w_sub[r] = "live" /\ w_rx[r] = RxIdle
    /\ w_sub' = [w_sub EXCEPT ![r] = "dropped"]
    /\ UNCHANGED <<w_value, w_version, w_seen, w_tx_alive, w_tx, w_rx, w_gauge,
                   w_total, w_nchanged, w_closed_seen, w_last, notW>>

\* Receiver::borrow, watch.rs 105-107: a reference to the cell's value; the
\* inner borrow() does not mark the value seen.
\* mutant: borrow marks the value seen, as borrow_and_update does
BorrowSeenUpdated(r) == [w_seen EXCEPT ![r] = w_version]

BorrowSeen(r) == w_seen

WBorrow(r) ==
    /\ w_sub[r] = "live" /\ w_rx[r] = RxIdle
    /\ w_seen' = BorrowSeen(r)
    /\ w_last' = Outcome("borrow", "Ok", w_value)
    /\ UNCHANGED <<w_value, w_version, w_sub, w_tx_alive, w_tx, w_rx, w_gauge,
                   w_total, w_nchanged, w_closed_seen, notW>>

\* inner has_changed(): Err once the sender is dropped, else whether the
\* version is unseen. With the sender dropped and a version unseen the
\* result depends on the tokio release the crate is built with: releases
\* that look at the closed flag first give Err, one that looks at the
\* version first gives Ok(true).
InnerHasChanged(r) ==
    IF w_tx_alive THEN {IF w_version # w_seen[r] THEN "true" ELSE "false"}
    ELSE IF w_version # w_seen[r] THEN {"Err", "true"}
    ELSE {"Err"}

\* Receiver::has_changed, watch.rs 122-124: unwrap_or(false)
has_changed(r) == {IF x = "Err" THEN "false" ELSE x : x \in InnerHasChanged(r)}

WHasChanged(r) ==
    /\ w_sub[r] = "live" /\ w_rx[r] = RxIdle
    /\ \E b \in has_changed(r) : w_last' = Outcome("has_changed", b, 0)
    /\ UNCHANGED <<w_value, w_version, w_seen, w_sub, w_tx_alive, w_tx, w_rx,
                   w_gauge, w_total, w_nchanged, w_closed_seen, notW>>

NextWatch ==
    \/ \E r \in Subs : WBorrow(r)
    \/ \E r \in Subs : WHasChanged(r)
    \/ WSend
    \/ WMetricsInc
    \/ WDropSender
    \/ \E r \in Subs : WChanged(r)
    \/ \E r \in Subs : WWake(r)
    \/ \E r \in Subs : WMetricsDec(r)
    \/ \E r \in Subs : WCancel(r)
    \/ \E r, q \in Subs : WCloneReceiver(r, q)
    \/ \E r \in Subs : WDropReceiver(r)

\* ================================================ the three channel types
\* a run builds one channel, of any of the three types, and uses it; the
\* queue's recv can be suspended and dropped here
QueueStart ==
    /\ buf = <<>>
    /\ permits = cap
    /\ waiters = <<>>
    /\ sem_closed = FALSE
    /\ rx_state = "open"
    /\ tx_alive = [s \in Senders |-> s = FirstSender]
    /\ held = [s \in Senders |-> 0]
    /\ fut = [s \in Senders |-> Idle]
    /\ rx = RxIdle
    /\ gauge = 0
    /\ total_messages = <<0>>
    /\ nextVal = 1
    /\ enqLog = <<>>
    /\ recvLog = <<>>
    /\ last = Outcome("none", "none", 0)
    /\ in_buf = <<>>
    /\ in_sent = 0
    /\ waiting = <<>>
    /\ ppc = "select"
    /\ pin = 0
    /\ wp_out = <<>>
    /\ wp_dropped = FALSE

InitWatch ==
    /\ kind = "watch"
    /\ WStart
    /\ RegStart
    /\ BcStart(1)
    /\ cap = 1
    /\ QueueStart

SpecWatch == InitWatch /\ [][NextWatch]_vars

InitAll ==
    /\ kind \in {"queue", "broadcast", "watch"}
    /\ cap \in (IF kind = "queue" THEN 1..MaxCap ELSE {1})
    /\ QueueStart
    /\ \E c \in (IF kind = "broadcast" THEN 1..MaxBcCap ELSE {1}) : BcStart(c)
    /\ WStart
    /\ RegStart

NextQueue ==
    \/ Next
    \/ RecvSuspend /\ UNCHANGED <<nextVal, procVars, otherVars>>
    \/ RecvResume /\ UNCHANGED <<nextVal, procVars, otherVars>>
    \/ RecvCancel /\ UNCHANGED <<nextVal, procVars, otherVars>>

NextAll ==
    \/ kind = "queue" /\ NextQueue
    \/ kind = "broadcast" /\ NextBc
    \/ kind = "watch" /\ NextWatch

SpecAll == InitAll /\ [][NextAll]_vars

\* operations between their effect on the channel and their metrics update
PendingInc == Cardinality({s \in Senders : fut[s].st = "inc"})
PendingDec == IF rx.st = "dec" THEN 1 ELSE 0
WPendingInc == IF w_tx.st = "inc" THEN 1 ELSE 0
WPendingDec == Cardinality({r \in Subs : w_rx[r].st = "dec"})

\* C13: a send, recv or changed that suspends and is dropped before it
\* resolves changes neither buffered values, watch value / version / seen
\* marker, gauge nor counter, at the suspension and at the drop; and every
\* enqueue, dequeue or seen-marking is followed by its metrics update, which
\* no drop can come before: the gauge and the counter differ from the
\* enqueue / dequeue / marking counts only by the updates of operations that
\* are past their last await and will run them.
C13_CancelLeavesNoTrace ==
    /\ [](/\ gauge = (Len(enqLog) - PendingInc) - (Len(recvLog) - PendingDec)
          /\ total_messages = <<Len(enqLog) - PendingInc>>
          /\ w_gauge = (w_version - WPendingInc) - (w_nchanged - WPendingDec)
          /\ w_total = <<(w_version - WPendingInc) + (w_nchanged - WPendingDec)>>)
    /\ [][\A s \in Senders :
            \/ /\ fut[s] = Idle
               /\ fut'[s].op = "send" /\ fut'[s].st = "wait"
            \/ /\ fut[s].op = "send" /\ fut[s].st # "idle" /\ fut'[s] = Idle
               /\ last' = Outcome("send", "Cancelled", fut[s].v)
            => UNCHANGED <<buf, gauge, total_messages, enqLog, recvLog>>]_vars
    /\ [][(\/ rx = RxIdle /\ rx'.st = "wait"
           \/ rx.st # "idle" /\ rx' = RxIdle
              /\ last' = Outcome("recv", "Cancelled", 0))
          => UNCHANGED <<buf, permits, waiters, fut, gauge, total_messages,
                         enqLog, recvLog>>]_vars
    /\ [][\A r \in Subs :
            \/ /\ w_rx[r] = RxIdle /\ w_rx'[r].st = "wait"
            \/ /\ w_rx[r].st # "idle" /\ w_rx'[r] = RxIdle
               /\ w_last' = Outcome("changed", "Cancelled", 0)
            => UNCHANGED <<w_value, w_version, w_seen, w_gauge, w_total,
                           w_nchanged>>]_vars
    /\ [][/\ \A s \in Senders : fut[s].st = "inc" =>
                \/ fut'[s] = fut[s]
                \/ /\ fut'[s] = Idle
                   /\ gauge' = gauge + 1
                   /\ total_messages' = <<total_messages[1] + 1>>
          /\ rx.st = "dec" =>
                \/ rx' = rx
                \/ rx' = RxIdle /\ gauge' = gauge - 1
          /\ \A r \in Subs : w_rx[r].st = "dec" =>
                \/ w_rx'[r] = w_rx[r]
                \/ /\ w_rx'[r] = RxIdle
                   /\ w_gauge' = w_gauge - 1
                   /\ w_total' = <<w_total[1] + 1>>]_vars

\* capacity 1 holding value 1: the send of value 2 suspended and was dropped
C13_Witness ==
    /\ last = Outcome("send", "Cancelled", 2)
    /\ cap = 1 /\ buf = <<1>> /\ enqLog = <<1>>
    /\ gauge = 1 /\ total_messages = <<1>>
    /\ \A s \in Senders : fut[s] = Idle

\* a recv suspended on the empty queue and was dropped; the value sent
\* afterwards is buffered
RecvCancelReached ==
    /\ last = Outcome("recv", "Cancelled", 0)
    /\ rx = RxIdle /\ buf = <<>> /\ recvLog = <<>>

\* version 1 was seen; the next changed() suspended and was dropped
ChangedCancelReached ==
    /\ w_last = Outcome("changed", "Cancelled", 0)
    /\ w_version = 1 /\ w_seen[FirstSub] = 1
    /\ w_gauge = 0 /\ w_total = <<2>>

SendOps == {"send", "try_send", "reserve"}

\* the queue returns Closed only in its closed state, which it never
\* leaves; a send, try_send or reserve called in the closed state returns
\* at once, and with Closed: any other outcome belongs to a call that was
\* already in flight
QueueClosedStays ==
    /\ [][(last' # last /\ last'.op \in SendOps /\ last'.out = "Closed")
          => sem_closed']_vars
    /\ [][sem_closed =>
            /\ sem_closed'
            /\ \A s \in Senders : fut[s] = Idle => fut'[s].op \notin SendOps
            /\ (last' # last /\ last'.op \in SendOps
                /\ last'.out \notin {"Closed", "Cancelled"})
               => \E s \in Senders : fut[s].op = last'.op /\ fut'[s] = Idle]_vars

\* after a broadcast send returned Closed, every send returns Closed
BcClosedStays ==
    [][(bc_closed_seen /\ bc_last' # bc_last /\ bc_last'.op = "send")
       => bc_last'.out = "Closed"]_vars

\* after a watch send returned Closed, every send returns Closed
WClosedStays ==
    [][(w_closed_seen /\ w_last' # w_last /\ w_last'.op = "send")
       => w_last'.out = "Closed"]_vars

\* C14 as stated: for the queue, the broadcast and the watch channel, once a
\* send, try_send or reserve has returned Closed, every later one returns
\* Closed, whatever happens in between.
C14_ClosedIsPermanent == QueueClosedStays /\ BcClosedStays /\ WClosedStays

WQuiescent == WPendingInc = 0 /\ WPendingDec = 0

\* C22 as stated: at a quiescent point the watch counter is the number of
\* successful changed() calls; send() does not increase it.
C22_CounterCountsChanged == WQuiescent => w_total = <<w_nchanged>>

WLive == {r \in Subs : w_sub[r] = "live"}

\* C23: a watch send never waits: the sender can always call it and the call
\* returns in the same step or after its metrics update. With a receiver
\* alive it stores the value, adds one to the version and then adds exactly
\* one to the gauge, whatever the number of receivers. It fails only with no
\* receiver alive, returning Closed with the value passed in, and then
\* changes neither value, version, gauge nor counter.
C23_WatchSend ==
    /\ []((w_tx_alive /\ w_tx = Idle /\ w_version < MaxWSend) => ENABLED WSend)
    /\ [](w_tx.st \in {"idle", "inc"} /\ (w_tx.st = "inc" => ENABLED WMetricsInc))
    /\ [][w_tx = Idle /\ w_tx' # Idle =>
            /\ WLive # {}
            /\ w_version' = w_version + 1
            /\ w_value' = w_version + 1
            /\ w_tx' = [op |-> "send", st |-> "inc", v |-> w_value']
            /\ UNCHANGED <<w_gauge, w_last>>]_vars
    /\ [][w_tx.st = "inc" /\ w_tx' # w_tx =>
            /\ w_tx' = Idle
            /\ w_gauge' = w_gauge + 1
            /\ w_last' = Outcome("send", "Ok", w_tx.v)
            /\ UNCHANGED <<w_value, w_version>>]_vars
    /\ [][(w_version' # w_version \/ w_value' # w_value)
          => w_tx = Idle /\ w_tx' # Idle]_vars
    /\ [][w_gauge' > w_gauge => w_tx.st = "inc" /\ w_tx' = Idle]_vars
    /\ [][(w_last' # w_last /\ w_last'.op = "send" /\ w_last'.out = "Closed")
          => /\ WLive = {}
             /\ w_last'.v = w_version + 1
             /\ UNCHANGED <<w_value, w_version, w_seen, w_gauge, w_total,
                            w_tx>>]_vars
    /\ [][WLive = {} => UNCHANGED <<w_value, w_version>>]_vars

\* send(1) with two receivers alive added one to the gauge; with both
\* receivers dropped send(2) failed with Closed(2) and changed nothing
C23_Witness ==
    /\ w_last = Outcome("send", "Closed", 2)
    /\ \A r \in Subs : w_sub[r] = "dropped"
    /\ w_value = 1 /\ w_version = 1
    /\ w_gauge = 1 /\ w_nchanged = 0
    /\ w_tx_alive /\ w_tx = Idle

\* C24 as stated: has_changed() returns true exactly when the receiver's
\* marker is behind the cell's version, in every state, also after the
\* sender is dropped.
C24_HasChangedIffBehind ==
    \A r \in Subs : w_sub[r] = "live" =>
       has_changed(r) = {IF w_seen[r] # w_version THEN "true" ELSE "false"}

\* ===================================================== metrics registry
\* the names passed to the constructors
Names == {"a", "b", "c"}

\* format!("{}_queue_size", name) and format!("{}_total_messages", name),
\* metrics.rs 16 and 22: the name followed by the suffix; two such strings
\* are equal only for the same name and the same suffix
queue_size_name(n) == <<n, "_queue_size">>
total_messages_name(n) == <<n, "_total_messages">>

Series == {queue_size_name(n) : n \in Names}
          \cup {total_messages_name(n) : n \in Names}

notReg == <<chanVars, nextVal, procVars, kind, bcVars, wVars>>

\* Registry::register: a name already registered is refused, else added
register(r, fq) ==
    IF fq \in r THEN [ok |-> FALSE, reg |-> r]
    ELSE [ok |-> TRUE, reg |-> r \cup {fq}]

RegOutcome(op, n, ok) ==
    [op |-> op, name |-> n, out |-> IF ok THEN "Ok" ELSE "Err"]

\* ChannelMetrics::new, metrics.rs 14-31: the gauge is registered, then the
\* counter; each ? returns the error at once
New(n) ==
    LET g == register(reg, queue_size_name(n))
        c == register(g.reg, total_messages_name(n))
    IN /\ reg' = IF g.ok THEN c.reg ELSE g.reg
       /\ reg_last' = RegOutcome("new", n, g.ok /\ c.ok)
       /\ UNCHANGED notReg

\* ChannelMetrics::new_basic, metrics.rs 34-49
NewBasic(n) ==
    LET g == register(reg, queue_size_name(n))
    IN /\ reg' = g.reg
       /\ reg_last' = RegOutcome("new_basic", n, g.ok)
       /\ UNCHANGED notReg

\* any other user of the registry registers a series
Register(fq) ==
    LET x == register(reg, fq)
    IN /\ reg' = x.reg
       /\ reg_last' = RegOutcome("register", fq, x.ok)
       /\ UNCHANGED notReg

InitReg ==
    /\ kind = "queue"
    /\ cap = 1
    /\ QueueStart
    /\ BcStart(1)
    /\ WStart
    /\ RegStart

NextReg ==
    \/ \E n \in Names : New(n)
    \/ \E n \in Names : NewBasic(n)
    \/ \E fq \in Series : Register(fq)

SpecReg == InitReg /\ [][NextReg]_vars

\* C25 as stated: new(name) either registers both series and succeeds, or
\* fails and leaves the registry as it was.
C25_NewIsAtomic ==
    [][\A n \in Names :
         (reg_last' = RegOutcome("new", n, TRUE) /\ reg_last' # reg_last
          => /\ queue_size_name(n) \notin reg
             /\ total_messages_name(n) \notin reg
             /\ reg' = reg \cup {queue_size_name(n), total_messages_name(n)})
         /\ (reg_last' = RegOutcome("new", n, FALSE)
             => reg' = reg)]_vars

\* C26 as stated: the queue's gauge is within 0..C in every reachable state,
\* the states between a channel operation and its gauge update included.
C26_GaugeInRange == 0 <= gauge /\ gauge <= cap

\* C26 amended: the gauge is within 0..C whenever no operation is between
\* its channel operation and its gauge update; in between it can be below 0
\* by at most the number of enqueues whose increment is still to come, and
\* above C by at most the one dequeue whose decrement is still to come.
C26_GaugeInRangeWhenQuiescent ==
    /\ Quiescent => (0 <= gauge /\ gauge <= cap)
    /\ 0 - PendingInc <= gauge
    /\ gauge <= cap + PendingDec
    /\ PendingInc <= Cardinality(Senders) /\ PendingDec <= 1

\* value 1 was enqueued by a try_send whose gauge increment has not run yet,
\* and was received: the gauge is -1
C26_Witness ==
    /\ gauge = 0 - 1
    /\ buf = <<>> /\ recvLog = <<1>>
    /\ rx = RxIdle
    /\ fut[FirstSender] = [op |-> "try_send", st |-> "inc", v |-> 1]

\* capacity 1: the dequeue of value 1 has not decremented the gauge yet and
\* value 2 is already enqueued and counted: the gauge is 2
GaugeAboveCapReached ==
    /\ cap = 1 /\ gauge = 2
    /\ buf = <<2>> /\ rx.st = "dec"

\* ============================================== the Sender as a Sink
\* impl Sink<T> for Sender<T>, channel.rs 211-229. The methods take
\* Pin<&mut Self>: no future and no Permit of the handle is alive.
SinkCanCall(s) == CanCall(s) /\ held[s] = 0

\* mutant: poll_ready is pending while the channel is full
PollOutBackpressure(op) ==
    IF op = "poll_ready" /\ permits = 0 THEN "Pending" ELSE "Ok"

\* poll_ready, poll_flush, poll_close: Poll::Ready(Ok(()))
PollOut(op) == "Ok"

SinkPolls == {"poll_ready", "poll_flush", "poll_close"}

\* channel.rs 214-216, 222-224, 226-228
SinkPoll(s, op) ==
    /\ SinkCanCall(s)
    /\ last' = Outcome(op, PollOut(op), 0)
    /\ UNCHANGED <<cap, buf, permits, waiters, sem_closed, rx_state, tx_alive,
                   held, fut, rx, gauge, total_messages, enqLog, recvLog>>

\* start_send, channel.rs 218-220: self.try_send(item)
StartSend(s, v) == SinkCanCall(s) /\ TrySendAs(s, "start_send", v)

start_send(s) ==
    nextVal <= MaxVal /\ StartSend(s, nextVal) /\ nextVal' = Took(s)
    /\ UNCHANGED <<procVars, otherVars>>

NextSink ==
    \/ Next
    \/ \E s \in Senders : start_send(s)
    \/ \E s \in Senders, op \in SinkPolls :
          SinkPoll(s, op) /\ UNCHANGED <<nextVal, procVars, otherVars>>

SpecSink == Init /\ [][NextSink]_vars

queueState == <<cap, buf, permits, waiters, sem_closed, rx_state, tx_alive,
                held, fut, rx, gauge, total_messages, enqLog, recvLog>>

\* C27: poll_ready, poll_flush and poll_close can be called whenever the
\* handle is free, full or closed as the channel may be, return Ready(Ok)
\* and change nothing (poll_close leaves the channel open); start_send does
\* what try_send does in the same state: with a free slot on an open channel
\* it enqueues the item and then adds one to gauge and counter, on a closed
\* channel it returns Closed(item), on a full open one Full(item), changing
\* nothing.
C27_SinkNoBackpressure ==
    /\ [](\A s \in Senders : SinkCanCall(s) =>
            /\ \A op \in SinkPolls : ENABLED SinkPoll(s, op)
            /\ nextVal <= MaxVal =>
                  (ENABLED StartSend(s, nextVal) <=> ENABLED TrySend(s, nextVal)))
    /\ [][(last' # last /\ last'.op \in SinkPolls)
          => last'.out = "Ok" /\ last'.v = 0 /\ UNCHANGED queueState]_vars
    /\ [][\A s \in Senders :
            (fut[s] = Idle /\ fut'[s].op = "start_send") =>
               /\ ~sem_closed /\ permits > 0
               /\ fut'[s] = [op |-> "start_send", st |-> "inc", v |-> nextVal]
               /\ buf' = Append(buf, nextVal)
               /\ enqLog' = Append(enqLog, nextVal)
               /\ permits' = permits - 1
               /\ UNCHANGED <<gauge, total_messages, sem_closed, rx_state,
                              last>>]_vars
    /\ [][\A s \in Senders :
            (fut[s].op = "start_send" /\ fut'[s] # fut[s]) =>
               /\ fut'[s] = Idle
               /\ gauge' = gauge + 1
               /\ total_messages' = <<total_messages[1] + 1>>
               /\ last' = Outcome("start_send", "Ok", fut[s].v)
               /\ UNCHANGED <<buf, permits, enqLog>>]_vars
    /\ [][(last' # last /\ last'.op = "start_send" /\ last'.out # "Ok") =>
            /\ last'.out = TrySendOut
            /\ last'.out = (IF sem_closed THEN "Closed" ELSE "Full")
            /\ sem_closed \/ permits = 0
            /\ last'.v = nextVal
            /\ UNCHANGED queueState]_vars

\* capacity 1, value 1 buffered, the receiver has closed the channel:
\* poll_close has just returned Ready(Ok) on the full, closed channel, and
\* a start_send of 2 would return Closed
C27_Witness ==
    /\ last = Outcome("poll_close", "Ok", 0)
    /\ cap = 1 /\ buf = <<1>> /\ permits = 0
    /\ rx_state = "closed" /\ sem_closed
    /\ gauge = 1 /\ total_messages = <<1>>
    /\ nextVal = 2
    /\ TrySendOut = "Closed"

\* start_send on a full open channel returned Full with the item
StartSendFullReached ==
    /\ last = Outcome("start_send", "Full", 2)
    /\ buf = <<1>> /\ cap = 1 /\ ~sem_closed
====
